---- MODULE Spec2Model ----
(***************************************************************************)
(* Model of the Monieshop analyser (src/main.py): the record parser        *)
(* (class Sale) and the aggregation engine (class MonieshopAnalyser).      *)
(*                                                                         *)
(* Text is modelled as sequences of one-character strings, so that         *)
(* slicing, splitting and int() act on characters as they do in Python.    *)
(* A Python dict is modelled as a sequence of [k, v] items in insertion    *)
(* order, because max() over dict.items() returns the first maximal item   *)
(* in that order.                                                          *)
(* Amounts are restricted to integer-valued decimal text, for which        *)
(* float() and float addition are exact.                                   *)
(***************************************************************************)
EXTENDS Integers, Sequences, FiniteSets, TLC

\* Number of update_metrics calls explored in one run.
MaxUpdates == 3

----------------------------------------------------------------------------
\* Python text primitives

DigitChars == <<"0", "1", "2", "3", "4", "5", "6", "7", "8", "9">>

DigitSet == {DigitChars[i] : i \in 1..Len(DigitChars)}

DigitVal(c) == (CHOOSE i \in 1..Len(DigitChars) : DigitChars[i] = c) - 1

Front(s) == SubSeq(s, 1, Len(s) - 1)

Last(s) == s[Len(s)]

\* str.split(d): the pieces between occurrences of d; never an empty list.
RECURSIVE Split(_, _)
Split(s, d) ==
    IF \E i \in 1..Len(s) : s[i] = d
    THEN LET i == CHOOSE i \in 1..Len(s) :
                      s[i] = d /\ \A j \in 1..(i - 1) : s[j] # d
         IN  <<SubSeq(s, 1, i - 1)>> \o Split(SubSeq(s, i + 1, Len(s)), d)
    ELSE <<s>>

\* s[1:-1]: drops the first and the last character, whatever they are.
SliceInner(s) == IF Len(s) <= 2 THEN <<>> ELSE SubSeq(s, 2, Len(s) - 1)

Unsigned(s) == IF Len(s) > 0 /\ s[1] \in {"-", "+"} THEN Tail(s) ELSE s

RECURSIVE DecVal(_)
DecVal(s) == IF s = <<>> THEN 0 ELSE DecVal(Front(s)) * 10 + DigitVal(Last(s))

\* int(text): an optional sign followed by at least one digit.
PyIntOK(s) ==
    /\ Len(Unsigned(s)) > 0
    /\ \A i \in 1..Len(Unsigned(s)) : Unsigned(s)[i] \in DigitSet

PyIntVal(s) ==
    IF Len(s) > 0 /\ s[1] = "-" THEN 0 - DecVal(Unsigned(s))
                                ELSE DecVal(Unsigned(s))

\* float(text) on integer-valued decimal text.
PyFloatOK(s) == PyIntOK(s)

PyFloatVal(s) == PyIntVal(s)

----------------------------------------------------------------------------
\* Python dict primitives (insertion-ordered)

DictHas(d, k) == \E i \in 1..Len(d) : d[i].k = k

DictIdx(d, k) == CHOOSE i \in 1..Len(d) : d[i].k = k

DictGet(d, k, default) == IF DictHas(d, k) THEN d[DictIdx(d, k)].v ELSE default

DictSet(d, k, v) ==
    IF DictHas(d, k) THEN [d EXCEPT ![DictIdx(d, k)].v = v]
                     ELSE Append(d, [k |-> k, v |-> v])

DictKeys(d) == {d[i].k : i \in 1..Len(d)}

\* max(d.items(), key=lambda x: x[1]) on a non-empty dict of numbers.
MaxItem(d) ==
    d[CHOOSE i \in 1..Len(d) :
          /\ \A j \in 1..Len(d) : d[j].v <= d[i].v
          /\ \A j \in 1..(i - 1) : d[j].v < d[i].v]

----------------------------------------------------------------------------
\* Record parser: class Sale

NoTimestamp == [year |-> 0, month |-> 0, day |-> 0, hour |-> 0]

NoSale == [staff |-> "", timestamp |-> NoTimestamp, products |-> <<>>,
           amount |-> <<>>]

\* datetime.datetime.fromisoformat on a field already cut into components.
format_timestamp(timestamp) ==
    IF /\ timestamp.month \in 1..12
       /\ timestamp.day \in 1..31
       /\ timestamp.hour \in 0..23
    THEN [err |-> "", val |-> timestamp]
    ELSE [err |-> "ValueError", val |-> NoTimestamp]

format_products(products) ==
    LET entries == Split(SliceInner(products), "|")
        fields(i) == Split(entries[i], ":")
    IN  IF \A i \in 1..Len(entries) : Len(fields(i)) = 2
        THEN [err |-> "",
              val |-> [i \in 1..Len(entries) |->
                          [id |-> fields(i)[1], quantity |-> fields(i)[2]]]]
        ELSE [err |-> "ValueError", val |-> <<>>]

\* Sale.__init__(record)
SaleInit(record) ==
    IF Len(record) < 2 THEN [err |-> "IndexError", sale |-> NoSale]
    ELSE IF format_timestamp(record[2]).err # ""
    THEN [err |-> format_timestamp(record[2]).err, sale |-> NoSale]
    ELSE IF Len(record) < 3 THEN [err |-> "IndexError", sale |-> NoSale]
    ELSE IF format_products(record[3]).err # ""
    THEN [err |-> format_products(record[3]).err, sale |-> NoSale]
    ELSE IF Len(record) < 4 THEN [err |-> "IndexError", sale |-> NoSale]
    ELSE [err |-> "",
          sale |-> [staff |-> record[1],
                    timestamp |-> format_timestamp(record[2]).val,
                    products |-> format_products(record[3]).val,
                    amount |-> record[4]]]

----------------------------------------------------------------------------
\* Aggregation engine: MonieshopAnalyser.update_metrics

\* sale.timestamp.date()
DateOf(timestamp) == <<timestamp.year, timestamp.month, timestamp.day>>

\* sale.timestamp.strftime('%Y-%m'): four-digit year, two-digit month.
MonthOf(timestamp) == <<timestamp.year, timestamp.month>>

\* sale.timestamp.hour
HourOf(timestamp) == timestamp.hour

QuantitiesOK(products) ==
    \A i \in 1..Len(products) : PyIntOK(products[i].quantity)

\* sum(int(product['quantity']) for product in sale.products)
RECURSIVE SaleVolume(_)
SaleVolume(products) ==
    IF products = <<>> THEN 0
    ELSE PyIntVal(Head(products).quantity) + SaleVolume(Tail(products))

UpdateDailyVolume_Overwrite(daily, date, sale_volume) ==
    DictSet(daily, date, sale_volume)

UpdateDailyVolume(daily, date, sale_volume) ==
    DictSet(daily, date, DictGet(daily, date, 0) + sale_volume)

UpdateDailyValue(daily, date, amount) ==
    DictSet(daily, date, DictGet(daily, date, 0) + PyFloatVal(amount))

RECURSIVE UpdateProductVolume_Overwrite(_, _)
UpdateProductVolume_Overwrite(volumes, products) ==
    IF products = <<>> THEN volumes
    ELSE UpdateProductVolume_Overwrite(
             DictSet(volumes, Head(products).id,
                     PyIntVal(Head(products).quantity)),
             Tail(products))

RECURSIVE UpdateProductVolume(_, _)
UpdateProductVolume(volumes, products) ==
    IF products = <<>> THEN volumes
    ELSE UpdateProductVolume(
             DictSet(volumes, Head(products).id,
                     DictGet(volumes, Head(products).id, 0)
                         + PyIntVal(Head(products).quantity)),
             Tail(products))

UpdateMonthlyStaffSales(monthly, month, staff, sale_volume) ==
    LET withMonth == DictSet(monthly, month, DictGet(monthly, month, <<>>))
        inner     == DictGet(withMonth, month, <<>>)
    IN  DictSet(withMonth, month,
                DictSet(inner, staff, DictGet(inner, staff, 0) + sale_volume))

UpdateHourlyVolumes_Reset(hourly, hour, sale_volume) ==
    DictSet(hourly, hour, <<sale_volume>>)

UpdateHourlyVolumes_SkipFirst(hourly, hour, sale_volume) ==
    IF ~DictHas(hourly, hour) THEN DictSet(hourly, hour, <<>>)
    ELSE DictSet(hourly, hour, Append(DictGet(hourly, hour, <<>>), sale_volume))

UpdateHourlyVolumes(hourly, hour, sale_volume) ==
    LET withHour == IF ~DictHas(hourly, hour)
                    THEN DictSet(hourly, hour, <<>>) ELSE hourly
    IN  DictSet(withHour, hour,
                Append(DictGet(withHour, hour, <<>>), sale_volume))

EmptyState == [daily_volume |-> <<>>, daily_value |-> <<>>,
               product_volume |-> <<>>, monthly_staff_sales |-> <<>>,
               hourly_volumes |-> <<>>]

\* update_metrics as a function of the engine's state: the state it leaves
\* and the exception it raises, if any.
update_metrics(st, sale) ==
    LET date        == DateOf(sale.timestamp)
        month       == MonthOf(sale.timestamp)
        hour        == HourOf(sale.timestamp)
        sale_volume == SaleVolume(sale.products)
        st1 == [st EXCEPT !.daily_volume =
                   UpdateDailyVolume(st.daily_volume, date, sale_volume)]
    IN  IF ~QuantitiesOK(sale.products)
        THEN [err |-> "ValueError", st |-> st]
        ELSE IF ~PyFloatOK(sale.amount)
        THEN [err |-> "ValueError", st |-> st1]
        ELSE [err |-> "",
              st |-> [daily_volume |-> st1.daily_volume,
                      daily_value |->
                          UpdateDailyValue(st.daily_value, date, sale.amount),
                      product_volume |->
                          UpdateProductVolume(st.product_volume, sale.products),
                      monthly_staff_sales |->
                          UpdateMonthlyStaffSales(st.monthly_staff_sales,
                                                  month, sale.staff, sale_volume),
                      hourly_volumes |->
                          UpdateHourlyVolumes(st.hourly_volumes, hour,
                                              sale_volume)]]

----------------------------------------------------------------------------
\* Aggregation engine: MonieshopAnalyser.print_metrics

\* An average sum(volumes)/len(volumes), kept as a fraction in lowest terms
\* with a positive denominator: equal fractions are equal floats.
Abs(n) == IF n < 0 THEN 0 - n ELSE n

RECURSIVE Gcd(_, _)
Gcd(a, b) == IF b = 0 THEN a ELSE Gcd(b, a % b)

RECURSIVE SumSeq(_)
SumSeq(s) == IF s = <<>> THEN 0 ELSE Head(s) + SumSeq(Tail(s))

Average(volumes) ==
    LET g == Gcd(Abs(SumSeq(volumes)), Len(volumes))
    IN  [num |-> SumSeq(volumes) \div g, den |-> Len(volumes) \div g]

AvgLeq(a, b) == a.num * b.den <= b.num * a.den

AvgLess(a, b) == a.num * b.den < b.num * a.den

\* max(avg_hourly_volume.items(), key=lambda x: x[1]) on a non-empty dict.
MaxAvgItem(d) ==
    d[CHOOSE i \in 1..Len(d) :
          /\ \A j \in 1..Len(d) : AvgLeq(d[j].v, d[i].v)
          /\ \A j \in 1..(i - 1) : AvgLess(d[j].v, d[i].v)]

\* monthly_top_staff: per month, the first staff item of maximal volume.
MonthlyTopStaff(monthly) ==
    [i \in 1..Len(monthly) |-> [k |-> monthly[i].k, v |-> MaxItem(monthly[i].v)]]

\* avg_hourly_volume
AvgHourlyVolume(hourly) ==
    [i \in 1..Len(hourly) |-> [k |-> hourly[i].k, v |-> Average(hourly[i].v)]]

\* Order of the '%Y-%m' keys as text.
MonthKeyLess(a, b) == a[1] < b[1] \/ (a[1] = b[1] /\ a[2] < b[2])

RECURSIVE InsertSorted(_, _)
InsertSorted(s, x) ==
    IF s = <<>> THEN <<x>>
    ELSE IF MonthKeyLess(x.k, Head(s).k) THEN <<x>> \o s
    ELSE <<Head(s)>> \o InsertSorted(Tail(s), x)

\* sorted(monthly_top_staff.items(), key=lambda x: x[0])
RECURSIVE SortedItems(_)
SortedItems(d) ==
    IF d = <<>> THEN <<>> ELSE InsertSorted(SortedItems(Front(d)), Last(d))

\* month_name[int(month[-2:])]: the month's name, here its number 1..12.
MonthLabel(month) == month[2]

NoItem == [k |-> <<>>, v |-> 0]

NoOutput(err) ==
    [err |-> err, volume_line |-> NoItem, value_line |-> NoItem,
     product_line |-> NoItem, staff_lines |-> <<>>,
     peak_line |-> [k |-> 0 - 1, v |-> [num |-> 0, den |-> 1]]]

StaffLines(monthly) ==
    LET items == SortedItems(MonthlyTopStaff(monthly))
    IN  [i \in 1..Len(items) |->
            [month |-> MonthLabel(items[i].k),
             staff |-> items[i].v.k, sales |-> items[i].v.v]]

PrintMetricsOutput_Default(st) ==
    [err |-> "",
     volume_line  |-> IF st.daily_volume = <<>> THEN NoItem
                      ELSE MaxItem(st.daily_volume),
     value_line   |-> IF st.daily_value = <<>> THEN NoItem
                      ELSE MaxItem(st.daily_value),
     product_line |-> IF st.product_volume = <<>> THEN NoItem
                      ELSE MaxItem(st.product_volume),
     staff_lines  |-> StaffLines(st.monthly_staff_sales),
     peak_line    |-> IF st.hourly_volumes = <<>> THEN NoOutput("").peak_line
                      ELSE MaxAvgItem(AvgHourlyVolume(st.hourly_volumes))]

\* What print_metrics writes for a state, or the exception that ends it
\* before the first line is written.
PrintMetricsOutput(st) ==
    IF st.daily_volume = <<>> THEN NoOutput("ValueError")
    ELSE IF st.daily_value = <<>> THEN NoOutput("ValueError")
    ELSE IF st.product_volume = <<>> THEN NoOutput("ValueError")
    ELSE IF \E i \in 1..Len(st.monthly_staff_sales) :
                st.monthly_staff_sales[i].v = <<>>
    THEN NoOutput("ValueError")
    ELSE IF \E i \in 1..Len(st.hourly_volumes) : st.hourly_volumes[i].v = <<>>
    THEN NoOutput("ZeroDivisionError")
    ELSE IF st.hourly_volumes = <<>> THEN NoOutput("ValueError")
    ELSE [err |-> "",
          volume_line  |-> MaxItem(st.daily_volume),
          value_line   |-> MaxItem(st.daily_value),
          product_line |-> MaxItem(st.product_volume),
          staff_lines  |-> StaffLines(st.monthly_staff_sales),
          peak_line    |-> MaxAvgItem(AvgHourlyVolume(st.hourly_volumes))]

----------------------------------------------------------------------------
\* Input records: line.strip().split(',') of the lines the reader supplies.

T(y, m, d, h) == [year |-> y, month |-> m, day |-> d, hour |-> h]

Lines == <<
    \* 4,2024-01-01T16:..,[A:2|B:1],5
    <<"4", T(2024, 1, 1, 16),
      <<"[", "A", ":", "2", "|", "B", ":", "1", "]">>, <<"5">>>>,
    \* 7,2024-01-01T09:..,[A:4],5
    <<"7", T(2024, 1, 1, 9), <<"[", "A", ":", "4", "]">>, <<"5">>>>,
    \* 7,2025-01-02T09:..,[B:1],9
    <<"7", T(2025, 1, 2, 9), <<"[", "B", ":", "1", "]">>, <<"9">>>>,
    \* 4,2024-02-03T23:..,[A:12,5       (closing bracket missing)
    <<"4", T(2024, 2, 3, 23), <<"[", "A", ":", "1", "2">>, <<"5">>>>,
    \* 4,2024-01-01T09:..,[A:x],5       (quantity not a number)
    <<"4", T(2024, 1, 1, 9), <<"[", "A", ":", "x", "]">>, <<"5">>>>,
    \* 4,2024-01-01T09:..,[A:-2],5      (negative quantity)
    <<"4", T(2024, 1, 1, 9), <<"[", "A", ":", "-", "2", "]">>, <<"5">>>>,
    \* 4,2024-01-01T09:..,[A:1],x       (amount not a number)
    <<"4", T(2024, 1, 1, 9), <<"[", "A", ":", "1", "]">>, <<"x">>>>,
    \* 4,2024-01-01T24:..,[A:1],5       (hour out of range)
    <<"4", T(2024, 1, 1, 24), <<"[", "A", ":", "1", "]">>, <<"5">>>>,
    \* 4,2024-01-01T09:..,[A],5         (entry without a colon)
    <<"4", T(2024, 1, 1, 9), <<"[", "A", "]">>, <<"5">>>>,
    \* 4,2024-01-01T09:..,[A:1]         (amount field missing)
    <<"4", T(2024, 1, 1, 9), <<"[", "A", ":", "1", "]">>>> >>

\* Sale(record) for every input record.
Parsed == [i \in 1..Len(Lines) |-> SaleInit(Lines[i])]

----------------------------------------------------------------------------
\* The engine as a state machine

VARIABLES
    daily_volume,         \* self.daily_volume
    daily_value,          \* self.daily_value
    product_volume,       \* self.product_volume
    monthly_staff_sales,  \* self.monthly_staff_sales
    hourly_volumes,       \* self.hourly_volumes
    transactions,         \* the sales folded in so far
    calls,                \* number of update_metrics calls made
    last,                 \* the last operation, its input and its outcome
    printed               \* what the last print_metrics call wrote

aggregates == <<daily_volume, daily_value, product_volume,
                monthly_staff_sales, hourly_volumes>>

vars == <<daily_volume, daily_value, product_volume, monthly_staff_sales,
          hourly_volumes, transactions, calls, last, printed>>

State == [daily_volume |-> daily_volume, daily_value |-> daily_value,
          product_volume |-> product_volume,
          monthly_staff_sales |-> monthly_staff_sales,
          hourly_volumes |-> hourly_volumes]

\* MonieshopAnalyser.__init__
Init ==
    /\ daily_volume = <<>>
    /\ daily_value = <<>>
    /\ product_volume = <<>>
    /\ monthly_staff_sales = <<>>
    /\ hourly_volumes = <<>>
    /\ transactions = <<>>
    /\ calls = 0
    /\ last = [op |-> "init", line |-> 0, parse_err |-> "", update_err |-> ""]
    /\ printed = NoOutput("")

\* One pass of the loop body of get_transactions on record Lines[i]:
\* construct the Sale, fold it in, remember it.  An exception leaves the
\* engine as the failing statement left it.
get_transactions(i) ==
    /\ calls < MaxUpdates
    /\ LET parsed == Parsed[i]
           folded == update_metrics(State, parsed.sale)
       IN  IF parsed.err # ""
           THEN /\ last' = [op |-> "ingest", line |-> i,
                            parse_err |-> parsed.err, update_err |-> ""]
                /\ UNCHANGED <<aggregates, transactions, calls>>
           ELSE /\ daily_volume' = folded.st.daily_volume
                /\ daily_value' = folded.st.daily_value
                /\ product_volume' = folded.st.product_volume
                /\ monthly_staff_sales' = folded.st.monthly_staff_sales
                /\ hourly_volumes' = folded.st.hourly_volumes
                /\ calls' = calls + 1
                /\ transactions' = IF folded.err = ""
                                   THEN Append(transactions, parsed.sale)
                                   ELSE transactions
                /\ last' = [op |-> "ingest", line |-> i, parse_err |-> "",
                            update_err |-> folded.err]
    /\ UNCHANGED printed

print_metrics_Consume ==
    /\ printed' = PrintMetricsOutput(State)
    /\ last' = [op |-> "print", line |-> 0, parse_err |-> "",
                update_err |-> ""]
    /\ hourly_volumes' = <<>>
    /\ UNCHANGED <<daily_volume, daily_value, product_volume,
                   monthly_staff_sales, transactions, calls>>

print_metrics ==
    /\ printed' = PrintMetricsOutput(State)
    /\ last' = [op |-> "print", line |-> 0, parse_err |-> "",
                update_err |-> ""]
    /\ UNCHANGED <<aggregates, transactions, calls>>

Next == (\E i \in 1..Len(Lines) : get_transactions(i)) \/ print_metrics

Spec == Init /\ [][Next]_vars

----------------------------------------------------------------------------
\* Vocabulary of the properties

\* The Sale handed to update_metrics by the last get_transactions step.
LastSale == Parsed[last.line].sale

\* A Sale as the data model describes it: quantities are non-negative
\* integers and the amount is a non-negative number.
ValidSale(sale) ==
    /\ QuantitiesOK(sale.products)
    /\ \A i \in 1..Len(sale.products) : PyIntVal(sale.products[i].quantity) >= 0
    /\ PyFloatOK(sale.amount)
    /\ PyFloatVal(sale.amount) >= 0

\* No update_metrics call has raised so far.
NoUpdateFailed == calls = Len(transactions)

\* A dict as a mapping: Python's == on dicts ignores insertion order.
AsMap(d) == [k \in DictKeys(d) |-> DictGet(d, k, 0)]

AsNestedMap(d) == [k \in DictKeys(d) |-> AsMap(DictGet(d, k, <<>>))]

BagOf(s) ==
    [x \in {s[i] : i \in DOMAIN s} |-> Cardinality({i \in DOMAIN s : s[i] = x})]

AsBagMap(d) == [k \in DictKeys(d) |-> BagOf(DictGet(d, k, <<>>))]

\* The same sales folded in one fixed order: that of their first line.
IdxOf(sale) ==
    CHOOSE i \in 1..Len(Lines) :
        /\ Parsed[i].err = "" /\ Parsed[i].sale = sale
        /\ \A j \in 1..(i - 1) : ~(Parsed[j].err = "" /\ Parsed[j].sale = sale)

RECURSIVE InsertTx(_, _)
InsertTx(s, x) ==
    IF s = <<>> THEN <<x>>
    ELSE IF IdxOf(x) < IdxOf(Head(s)) THEN <<x>> \o s
    ELSE <<Head(s)>> \o InsertTx(Tail(s), x)

RECURSIVE SortTx(_)
SortTx(s) == IF s = <<>> THEN <<>> ELSE InsertTx(SortTx(Front(s)), Last(s))

RECURSIVE FoldAll(_)
FoldAll(s) ==
    IF s = <<>> THEN EmptyState
    ELSE update_metrics(FoldAll(Front(s)), Last(s)).st

Canonical == FoldAll(SortTx(transactions))

AllValidFolded ==
    /\ NoUpdateFailed
    /\ \A i \in 1..Len(transactions) : ValidSale(transactions[i])

UniqueMax(d) == Cardinality({i \in 1..Len(d) : d[i].v = MaxItem(d).v}) = 1

UniqueMaxAvg(d) ==
    Cardinality({i \in 1..Len(d) : d[i].v = MaxAvgItem(d).v}) = 1

\* The values of a report, without the keys they are reported for.
SnapshotValues(out) ==
    [err |-> out.err, volume |-> out.volume_line.v, value |-> out.value_line.v,
     product |-> out.product_line.v,
     staff |-> [i \in 1..Len(out.staff_lines) |->
                   [month |-> out.staff_lines[i].month,
                    sales |-> out.staff_lines[i].sales]],
     peak |-> out.peak_line.v]

\* Where the maximum is unique, two reports name the same key.
SameUniqueKeys(a, b) ==
    LET outA == PrintMetricsOutput(a)
        outB == PrintMetricsOutput(b)
        monthsA == SortedItems(a.monthly_staff_sales)
    IN  outA.err = "" =>
        /\ UniqueMax(a.daily_volume) =>
               outA.volume_line.k = outB.volume_line.k
        /\ UniqueMax(a.daily_value) => outA.value_line.k = outB.value_line.k
        /\ UniqueMax(a.product_volume) =>
               outA.product_line.k = outB.product_line.k
        /\ \A i \in 1..Len(monthsA) :
               UniqueMax(monthsA[i].v) =>
                   outA.staff_lines[i].staff = outB.staff_lines[i].staff
        /\ UniqueMaxAvg(AvgHourlyVolume(a.hourly_volumes)) =>
               outA.peak_line.k = outB.peak_line.k

SameNumericAggregates(a, b) ==
    /\ AsMap(a.daily_volume) = AsMap(b.daily_volume)
    /\ AsMap(a.daily_value) = AsMap(b.daily_value)
    /\ AsMap(a.product_volume) = AsMap(b.product_volume)
    /\ AsNestedMap(a.monthly_staff_sales) = AsNestedMap(b.monthly_staff_sales)

RECURSIVE SumVals(_)
SumVals(d) == IF d = <<>> THEN 0 ELSE Head(d).v + SumVals(Tail(d))

RECURSIVE SumNested(_)
SumNested(d) == IF d = <<>> THEN 0 ELSE SumVals(Head(d).v) + SumNested(Tail(d))

RECURSIVE SumLists(_)
SumLists(d) == IF d = <<>> THEN 0 ELSE SumSeq(Head(d).v) + SumLists(Tail(d))

RECURSIVE CountLists(_)
CountLists(d) == IF d = <<>> THEN 0 ELSE Len(Head(d).v) + CountLists(Tail(d))

IsPrefix(s, t) == Len(s) <= Len(t) /\ SubSeq(t, 1, Len(s)) = s

\* The products field lacks its closing bracket.
MissingClosingBracket(products) ==
    Len(products) = 0 \/ Last(products) # "]"

\* The products field is bracketed and an entry's quantity is not a number.
NonNumericQuantity(products) ==
    /\ Len(products) >= 2 /\ products[1] = "[" /\ Last(products) = "]"
    /\ LET entries == Split(SubSeq(products, 2, Len(products) - 1), "|")
       IN  \E i \in 1..Len(entries) :
               /\ Len(Split(entries[i], ":")) = 2
               /\ ~PyIntOK(Split(entries[i], ":")[2])

MonthKeys == DictKeys(monthly_staff_sales)

MonthRank(k) == 1 + Cardinality({k2 \in MonthKeys : MonthKeyLess(k2, k)})

MaxOfMonth(k) ==
    LET staff == DictGet(monthly_staff_sales, k, <<>>)
    IN  CHOOSE v \in {staff[i].v : i \in 1..Len(staff)} :
            \A i \in 1..Len(staff) : staff[i].v <= v

----------------------------------------------------------------------------
\* Properties

C2_MalformedProductsFailAtParse ==
    (/\ last.op = "ingest"
     /\ \/ MissingClosingBracket(Lines[last.line][3])
        \/ NonNumericQuantity(Lines[last.line][3]))
        => last.parse_err # ""

\* C3: print_metrics on an engine that never received an update raises
\* before writing anything, and writes no zero metrics.
C3_EmptyReportRaises ==
    (last.op = "print" /\ calls = 0) => printed = NoOutput("ValueError")

C3_Witness == last.op = "print" /\ calls = 0 /\ printed.err = "ValueError"

\* C4: print_metrics leaves the five aggregates unchanged, and a second
\* print_metrics right after the first writes the same report.
C4_ReportIsPure ==
    [][last'.op = "print" =>
           /\ aggregates' = aggregates
           /\ last.op = "print" => printed' = printed]_vars

C4_Witness ==
    last.op = "print" /\ printed.err = "" /\ Len(transactions) >= 2

\* C5: the report has one top-staff entry per year-month with a sale, in
\* chronological order, each naming a staff member of maximal volume in
\* that month with that volume, and entries of different year-months never
\* share a label.
C5_TopStaffByMonth ==
    (last.op = "print" /\ printed.err = "") =>
        /\ Len(printed.staff_lines) = Cardinality(MonthKeys)
        /\ \A k \in MonthKeys :
               LET entry == printed.staff_lines[MonthRank(k)]
               IN  /\ entry.sales = MaxOfMonth(k)
                   /\ DictGet(DictGet(monthly_staff_sales, k, <<>>),
                              entry.staff, 0 - 1) = entry.sales
        /\ \A i, j \in 1..Len(printed.staff_lines) :
               i # j => printed.staff_lines[i].month
                            # printed.staff_lines[j].month

\* C6: one update of a valid Sale adds the sum of its quantities to the
\* daily volume of its date and to the monthly volume of its staff member,
\* and appends that sum as one element to the list of its hour.
C6_SaleVolumeContribution ==
    [][(calls' = calls + 1 /\ ValidSale(LastSale')) =>
           LET sale   == LastSale'
               volume == SaleVolume(sale.products)
               date   == DateOf(sale.timestamp)
               month  == MonthOf(sale.timestamp)
               hour   == HourOf(sale.timestamp)
           IN  /\ last'.update_err = ""
               /\ DictGet(daily_volume', date, 0)
                      = DictGet(daily_volume, date, 0) + volume
               /\ DictGet(DictGet(monthly_staff_sales', month, <<>>),
                          sale.staff, 0)
                      = DictGet(DictGet(monthly_staff_sales, month, <<>>),
                                sale.staff, 0) + volume
               /\ DictGet(hourly_volumes', hour, <<>>)
                      = Append(DictGet(hourly_volumes, hour, <<>>), volume)
      ]_vars

C6_Witness ==
    /\ last.op = "ingest" /\ last.line = 1 /\ last.update_err = ""
    /\ Len(DictGet(hourly_volumes, 16, <<>>)) >= 2
    /\ DictGet(daily_volume, <<2024, 1, 1>>, 0) = 7

\* C7: an update that fails leaves all five aggregates as they were, and
\* one that succeeds has the sale's keys in all five.
C7_UpdateIsAtomic ==
    [][calls' = calls + 1 =>
           IF last'.update_err # ""
           THEN aggregates' = aggregates
           ELSE /\ DictHas(daily_volume', DateOf(LastSale'.timestamp))
                /\ DictHas(daily_value', DateOf(LastSale'.timestamp))
                /\ \A i \in 1..Len(LastSale'.products) :
                       DictHas(product_volume', LastSale'.products[i].id)
                /\ DictHas(monthly_staff_sales', MonthOf(LastSale'.timestamp))
                /\ DictHas(hourly_volumes', HourOf(LastSale'.timestamp))
      ]_vars

\* C8: across an update no key leaves an aggregate, no stored number
\* decreases and no hourly list loses an element.
C8_MonotoneGrowth ==
    [][calls' = calls + 1 =>
           /\ \A k \in DictKeys(daily_volume) :
                  /\ DictHas(daily_volume', k)
                  /\ DictGet(daily_volume', k, 0) >= DictGet(daily_volume, k, 0)
           /\ \A k \in DictKeys(daily_value) :
                  /\ DictHas(daily_value', k)
                  /\ DictGet(daily_value', k, 0) >= DictGet(daily_value, k, 0)
           /\ \A k \in DictKeys(product_volume) :
                  /\ DictHas(product_volume', k)
                  /\ DictGet(product_volume', k, 0)
                         >= DictGet(product_volume, k, 0)
           /\ \A k \in DictKeys(monthly_staff_sales) :
                  /\ DictHas(monthly_staff_sales', k)
                  /\ \A s \in DictKeys(DictGet(monthly_staff_sales, k, <<>>)) :
                         /\ DictHas(DictGet(monthly_staff_sales', k, <<>>), s)
                         /\ DictGet(DictGet(monthly_staff_sales', k, <<>>), s, 0)
                                >= DictGet(DictGet(monthly_staff_sales, k, <<>>),
                                           s, 0)
           /\ \A k \in DictKeys(hourly_volumes) :
                  /\ DictHas(hourly_volumes', k)
                  /\ IsPrefix(DictGet(hourly_volumes, k, <<>>),
                              DictGet(hourly_volumes', k, <<>>))
      ]_vars

\* C9: every hour key of hourly_volumes is in 0..23 and holds a non-empty
\* list, and print_metrics never divides by zero.
C9_HoursNonEmpty ==
    /\ \A i \in 1..Len(hourly_volumes) :
           hourly_volumes[i].k \in 0..23 /\ hourly_volumes[i].v # <<>>
    /\ printed.err # "ZeroDivisionError"

C9_Witness ==
    /\ last.op = "print" /\ printed.err = ""
    /\ Len(hourly_volumes) >= 3
    /\ DictHas(hourly_volumes, 23)

\* C10: while every update has succeeded, the daily, product, monthly
\* staff and hourly totals are equal, the hourly lists hold one element per
\* sale folded in, and daily_volume and daily_value have the same keys.
C10_Conservation ==
    NoUpdateFailed =>
        /\ SumVals(daily_volume) = SumVals(product_volume)
        /\ SumVals(daily_volume) = SumNested(monthly_staff_sales)
        /\ SumVals(daily_volume) = SumLists(hourly_volumes)
        /\ CountLists(hourly_volumes) = Len(transactions)
        /\ DictKeys(daily_volume) = DictKeys(daily_value)

C10_Witness ==
    /\ NoUpdateFailed
    /\ Len(transactions) >= 3
    /\ Len(daily_volume) >= 2
    /\ SumVals(product_volume) >= 8

====
